---------------------------- MODULE Spec2Model ----------------------------
(***************************************************************************)
(* A model of src/pipeline.py, the EduVision scholarships scraper:         *)
(*   - discover_links_from_listing, extract_fields and main as a state     *)
(*     machine (specification Spec, and LiveSpec with fairness);           *)
(*   - guess_field_by_heading, the level/type tagging of extract_fields    *)
(*     and extract_date as operators over Python strings, each exercised   *)
(*     by a specification of its own (SpecHeading, SpecFields, SpecDate).  *)
(* Python str values are TLA+ strings; None is the string NoneVal, which   *)
(* no page text of the model equals.                                       *)
(***************************************************************************)
EXTENDS Naturals, Sequences, FiniteSets, TLC

VARIABLES
    pc,             \* position in main: "discover", "scrape", "done"
    page,           \* discover_links_from_listing: page
    links,          \* discover_links_from_listing: links (a set of addresses)
    linkList,       \* main: links, the sorted list discovery returned
    idx,            \* main: number of links of linkList already processed
    results,        \* main: results
    files,          \* the three output files (NotWritten, or the rows written)
    warned,         \* whether "[WARN] No scholarships scraped!" was printed
    trace,          \* history: the fetch and time.sleep calls, in call order
    discoveryOrder, \* history: addresses in the order the listing anchors gave them
    outcomes,       \* history: per processed link, what its fetch returned
    lastListing,    \* history: what made discovery return
    hDoc, hKeys, hResult, hDone,      \* SpecHeading: one call of guess_field_by_heading
    fContent, fLevel, fType, fDone,   \* SpecFields: tagging of one full content
    dText, dPd, dParse, dResult, dDone  \* SpecDate: one call of extract_date

mainVars == <<pc, page, links, linkList, idx, results, files, warned, trace,
              discoveryOrder, outcomes, lastListing>>
headingVars == <<hDoc, hKeys, hResult, hDone>>
fieldVars == <<fContent, fLevel, fType, fDone>>
dateVars == <<dText, dPd, dParse, dResult, dDone>>
pureVars == <<headingVars, fieldVars, dateVars>>
vars == <<mainVars, pureVars>>

(***************************************************************************)
(* Python string primitives.                                               *)
(***************************************************************************)
NoneVal == "<None>"

\* The characters the model's texts use, in ASCII order (for sorted()).
Ascii == " #&,-./0123456789:=?ABCDEFGHIJKLMNOPQRSTUVWXYZ_abcdefghijklmnopqrstuvwxyz"
UpperLetters == "ABCDEFGHIJKLMNOPQRSTUVWXYZ"
LowerLetters == "abcdefghijklmnopqrstuvwxyz"
Digits == "0123456789"

CharAt(s, i) == SubSeq(s, i, i)
Tail2(s, i) == SubSeq(s, i, Len(s))          \* s[i-1:] in Python
IndexIn(c, alphabet) ==
    IF \E i \in 1..Len(alphabet) : CharAt(alphabet, i) = c
    THEN CHOOSE i \in 1..Len(alphabet) : CharAt(alphabet, i) = c
    ELSE 0

\* sub in s
Contains(s, sub) ==
    \E i \in 1..(Len(s) + 1 - Len(sub)) : SubSeq(s, i, i + Len(sub) - 1) = sub
StartsWith(s, pre) == Len(pre) <= Len(s) /\ SubSeq(s, 1, Len(pre)) = pre
EndsWith(s, suf) ==
    Len(suf) <= Len(s) /\ SubSeq(s, Len(s) - Len(suf) + 1, Len(s)) = suf

LowerChar(c) ==
    IF IndexIn(c, UpperLetters) > 0
    THEN CharAt(LowerLetters, IndexIn(c, UpperLetters))
    ELSE c
\* s.lower(), from character i on
RECURSIVE LowerFrom(_, _)
LowerFrom(s, i) ==
    IF i > Len(s) THEN "" ELSE LowerChar(CharAt(s, i)) \o LowerFrom(s, i + 1)
Lower(s) == LowerFrom(s, 1)

\* s.lstrip(), s.rstrip(), s.strip() (the model's only whitespace is the space)
IsSpace(c) == c = " "
LStrip(s) ==
    LET keep == {i \in 1..Len(s) : ~IsSpace(CharAt(s, i))}
    IN IF keep = {} THEN ""
       ELSE Tail2(s, CHOOSE i \in keep : \A j \in keep : i <= j)
RStrip(s) ==
    LET keep == {i \in 1..Len(s) : ~IsSpace(CharAt(s, i))}
    IN IF keep = {} THEN ""
       ELSE SubSeq(s, 1, CHOOSE i \in keep : \A j \in keep : i >= j)
Strip(s) == RStrip(LStrip(s))

\* sep.join(parts), from part i on
RECURSIVE JoinFrom(_, _, _)
JoinFrom(parts, sep, i) ==
    IF i > Len(parts) THEN ""
    ELSE IF i = Len(parts) THEN parts[i]
    ELSE parts[i] \o sep \o JoinFrom(parts, sep, i + 1)
Join(parts, sep) == JoinFrom(parts, sep, 1)

\* s.split("#")[0]
BeforeHash(s) ==
    IF Contains(s, "#")
    THEN SubSeq(s, 1, (CHOOSE i \in 1..Len(s) :
                          /\ CharAt(s, i) = "#"
                          /\ \A j \in 1..(i - 1) : CharAt(s, j) # "#") - 1)
    ELSE s

\* a < b for Python str (code-point order, a proper prefix first)
StrLess(a, b) ==
    \E i \in 1..Len(b) :
        /\ i - 1 <= Len(a) /\ SubSeq(a, 1, i - 1) = SubSeq(b, 1, i - 1)
        /\ \/ i > Len(a)
           \/ /\ CharAt(a, i) # CharAt(b, i)
              /\ IndexIn(CharAt(a, i), Ascii) < IndexIn(CharAt(b, i), Ascii)

\* sorted(S) for a set of str
Sorted(S) ==
    CHOOSE q \in [1..Cardinality(S) -> S] :
        \A i, j \in 1..Cardinality(S) : i < j => StrLess(q[i], q[j])

Range(f) == {f[i] : i \in DOMAIN f}
SeqsUpTo(S, n) == UNION {[1..k -> S] : k \in 0..n}


\* str(n) for a natural number
RECURSIVE IntStr(_)
IntStr(n) ==
    IF n < 10 THEN CharAt(Digits, n + 1)
    ELSE IntStr(n \div 10) \o CharAt(Digits, (n % 10) + 1)

(***************************************************************************)
(* Bounds of the model.                                                    *)
(***************************************************************************)
MaxPages == 2       \* max_pages, the argument of discover_links_from_listing
MaxAnchors == 2     \* anchors on one listing page

(***************************************************************************)
(* CONFIG, and the site as the scraper can see it.                         *)
(***************************************************************************)
BASE == "https://www.eduvision.edu.pk"
LISTING_PATH == "/scholarships/"

\* href attributes a listing page may carry
Hrefs == { "/scholarships/b",
           "/scholarships/a#apply",
           "https://www.eduvision.edu.pk/scholarships/a",
           "#/scholarships/top",
           "/scholarships/",
           "/about" }

\* What session.get + raise_for_status give fetch: an exception (fetch returns
\* None), or r.text, which may be the empty string.  A non-empty listing text
\* is given by the href of each of its anchors, in document order.
ListingResponses ==
    {[kind |-> "none", anchors |-> <<>>], [kind |-> "empty", anchors |-> <<>>]}
    \cup {[kind |-> "html", anchors |-> a] : a \in SeqsUpTo(Hrefs, MaxAnchors)}

\* "not html" for what fetch returned
NotHtml(r) == r.kind \in {"none", "empty"}

\* urljoin(BASE, ref): BASE has an empty path
UrlJoinBase(ref) ==
    IF Contains(ref, "://") THEN ref
    ELSE IF StartsWith(ref, "/") \/ StartsWith(ref, "#") \/ ref = "" THEN BASE \o ref
    ELSE BASE \o "/" \o ref

ListingUrl(p) == UrlJoinBase(LISTING_PATH \o "?page=" \o IntStr(p))

\* the address one selected anchor contributes, were href not joined to BASE
LinkOfHrefNoJoin(href) == BeforeHash(href)

\* urljoin(BASE, href).split("#")[0]
LinkOfHref(href) == BeforeHash(UrlJoinBase(href))

\* soup.select("a[href*='/scholarships/']") and the test in the loop
Selected(href) ==
    /\ Contains(href, "/scholarships/")
    /\ href # "" /\ Contains(href, "/scholarships/")
    /\ ~EndsWith(href, "/scholarships/")

FoundLinks(anchors) ==
    {LinkOfHref(anchors[i]) : i \in {j \in DOMAIN anchors : Selected(anchors[j])}}

\* history: the addresses of anchors, first occurrence first, appended to seen
RECURSIVE AppendNew(_, _)
AppendNew(seen, anchors) ==
    IF Len(anchors) = 0 THEN seen
    ELSE LET h == Head(anchors)
             u == LinkOfHref(h)
         IN AppendNew(IF Selected(h) /\ u \notin Range(seen) THEN Append(seen, u) ELSE seen,
                      Tail(anchors))

\* history records: a call of fetch (by: the caller) and a call of time.sleep(DELAY)
FetchEvent(by, url) == [op |-> "fetch", by |-> by, url |-> url]
SleepEvent == [op |-> "sleep", by |-> "", url |-> ""]
NotWritten == [written |-> FALSE, rows |-> <<>>]
Written(rows) == [written |-> TRUE, rows |-> rows]

(***************************************************************************)
(* discover_links_from_listing: one action per way through the loop body.  *)
(***************************************************************************)
\* return list(links), in an order that is not the sorted one
ReturnUnsorted(S) ==
    CHOOSE q \in [1..Cardinality(S) -> S] :
        \A i, j \in 1..Cardinality(S) : i < j => StrLess(q[j], q[i])

\* return sorted(links)
ReturnLinks(S) == Sorted(S)

\* while page <= max_pages, taken one page too far
WhileOffByOne(p) == p <= MaxPages + 1

\* while page <= max_pages
WhileCondition(p) == p <= MaxPages

\* html = fetch(url); if not html: break
DiscoverFetchFailed ==
    /\ pc = "discover" /\ WhileCondition(page)
    /\ \E r \in ListingResponses :
         /\ NotHtml(r)
         /\ lastListing' = r.kind
    /\ trace' = Append(trace, FetchEvent("discover", ListingUrl(page)))
    /\ linkList' = ReturnLinks(links)
    /\ pc' = "scrape"
    /\ UNCHANGED <<page, links, idx, results, files, warned, discoveryOrder, outcomes, pureVars>>

\* if not new_links: break
DiscoverNoNewLinks ==
    /\ pc = "discover" /\ WhileCondition(page)
    /\ \E r \in ListingResponses :
         /\ ~NotHtml(r)
         /\ FoundLinks(r.anchors) \ links = {}
    /\ trace' = Append(trace, FetchEvent("discover", ListingUrl(page)))
    /\ lastListing' = "nonew"
    /\ linkList' = ReturnLinks(links)
    /\ pc' = "scrape"
    /\ UNCHANGED <<page, links, idx, results, files, warned, discoveryOrder, outcomes, pureVars>>

\* links.update(new_links); page += 1; time.sleep(DELAY)
DiscoverNewLinks ==
    /\ pc = "discover" /\ WhileCondition(page)
    /\ \E r \in ListingResponses :
         /\ ~NotHtml(r)
         /\ FoundLinks(r.anchors) \ links # {}
         /\ links' = links \cup (FoundLinks(r.anchors) \ links)
         /\ discoveryOrder' = AppendNew(discoveryOrder, r.anchors)
    /\ page' = page + 1
    /\ trace' = trace \o <<FetchEvent("discover", ListingUrl(page)), SleepEvent>>
    /\ lastListing' = "new"
    /\ UNCHANGED <<pc, linkList, idx, results, files, warned, outcomes, pureVars>>

\* while page <= max_pages fails: return sorted(links)
DiscoverMaxPages ==
    /\ pc = "discover" /\ ~WhileCondition(page)
    /\ linkList' = ReturnLinks(links)
    /\ pc' = "scrape"
    /\ UNCHANGED <<page, links, idx, results, files, warned, trace, discoveryOrder,
                   outcomes, lastListing, pureVars>>


(***************************************************************************)
(* Parsed documents.  A document is the sequence of the children of the    *)
(* content element, in document order; a node is a tag with its text, the  *)
(* tag "#text" standing for a NavigableString between two elements.  A     *)
(* node's text is already what stripped_strings gives for it ("" for an    *)
(* empty element or a whitespace-only string).                             *)
(***************************************************************************)
Node(tag, text) == [tag |-> tag, text |-> text]

\* re.compile("^h[1-6]$") on a tag name
IsHeadingTag(tag) == tag \in {"h1", "h2", "h3", "h4", "h5", "h6"}

\* extract_text(el) for one node
extract_text(node) == node.text

\* extract_text(main): " ".join(main.stripped_strings), empty strings skipped
RECURSIVE StrippedStrings(_)
StrippedStrings(doc) ==
    IF Len(doc) = 0 THEN <<>>
    ELSE (IF Head(doc).text = "" THEN <<>> ELSE <<Head(doc).text>>)
         \o StrippedStrings(Tail(doc))
FullContent(doc) == Join(StrippedStrings(doc), " ")

\* for key in heading_texts: if key in txt
RECURSIVE KeyIn(_, _, _)
KeyIn(txt, heading_texts, k) ==
    IF k > Len(heading_texts) THEN FALSE
    ELSE IF Contains(txt, heading_texts[k]) THEN TRUE
    ELSE KeyIn(txt, heading_texts, k + 1)

\* for sib in h.next_siblings: the texts appended to content, from node j on
RECURSIVE SiblingTexts(_, _)
SiblingTexts(doc, j) ==
    IF j > Len(doc) THEN <<>>
    ELSE IF IsHeadingTag(doc[j].tag) THEN <<>>
    ELSE <<extract_text(doc[j])>> \o SiblingTexts(doc, j + 1)

\* return " ".join(content).strip()
SectionText(doc, i) == Strip(Join(SiblingTexts(doc, i + 1), " "))

\* for h in soup.find_all(re.compile("^h[1-6]$")), from node i on
RECURSIVE GuessFrom(_, _, _)
GuessFrom(doc, heading_texts, i) ==
    IF i > Len(doc) THEN ""
    ELSE IF IsHeadingTag(doc[i].tag)
            /\ KeyIn(Lower(doc[i].text), heading_texts, 1)
         THEN SectionText(doc, i)
    ELSE GuessFrom(doc, heading_texts, i + 1)

\* a locator that lets the first keyword of the list pick the heading
RECURSIVE GuessByKeyPriority(_, _)
GuessByKeyPriority(doc, heading_texts) ==
    IF Len(heading_texts) = 0 THEN ""
    ELSE IF \E i \in DOMAIN doc :
               IsHeadingTag(doc[i].tag) /\ Contains(Lower(doc[i].text), Head(heading_texts))
         THEN SectionText(doc, CHOOSE i \in DOMAIN doc :
                /\ IsHeadingTag(doc[i].tag) /\ Contains(Lower(doc[i].text), Head(heading_texts))
                /\ \A j \in 1..(i - 1) :
                     ~(IsHeadingTag(doc[j].tag)
                       /\ Contains(Lower(doc[j].text), Head(heading_texts))))
    ELSE GuessByKeyPriority(doc, Tail(heading_texts))

guess_field_by_heading(doc, heading_texts) == GuessFrom(doc, heading_texts, 1)


(***************************************************************************)
(* Regular expressions of extract_fields and extract_date.                 *)
(***************************************************************************)
IsWordChar(c) ==
    c # "" /\ (IndexIn(c, Digits) > 0 \/ IndexIn(c, LowerLetters) > 0
               \/ IndexIn(c, UpperLetters) > 0 \/ c = "_")
IsDigit(c) == c # "" /\ IndexIn(c, Digits) > 0

\* \b between s[i-1] and s[i] (1-based; i = 1 and i = Len(s)+1 are the ends)
WordBoundary(s, i) ==
    LET before == IF i > 1 THEN IsWordChar(CharAt(s, i - 1)) ELSE FALSE
        after == IF i <= Len(s) THEN IsWordChar(CharAt(s, i)) ELSE FALSE
    IN before # after

\* re.search of a literal word w, with \b before and/or after it
SearchWord(s, w, bBefore, bAfter) ==
    \E i \in 1..(Len(s) + 1 - Len(w)) :
        /\ SubSeq(s, i, i + Len(w) - 1) = w
        /\ bBefore => WordBoundary(s, i)
        /\ bAfter => WordBoundary(s, i + Len(w))

\* the five tests of "# Level", on text_lower
LevelTags(text_lower) ==
    (IF SearchWord(text_lower, "matric", TRUE, TRUE) THEN {"Matric"} ELSE {})
    \cup (IF SearchWord(text_lower, "inter", TRUE, TRUE)
             \/ Contains(text_lower, "intermediate") THEN {"Intermediate"} ELSE {})
    \cup (IF SearchWord(text_lower, "bachelor", TRUE, FALSE)
             \/ Contains(text_lower, "undergrad") THEN {"Bachelor"} ELSE {})
    \cup (IF SearchWord(text_lower, "ms", TRUE, FALSE)
             \/ Contains(text_lower, "m.phil")
             \/ Contains(text_lower, "master") THEN {"Masters/MPhil"} ELSE {})
    \cup (IF SearchWord(text_lower, "phd", TRUE, FALSE)
             \/ Contains(text_lower, "doctoral") THEN {"PhD"} ELSE {})

\* level = ", ".join(sorted(set(level)))
LevelOf(full_content) == Join(Sorted(LevelTags(Lower(full_content))), ", ")

\* "# Type (Merit/Need)" with the two tests taken on full_content as it is
TypeCaseSensitive(full_content) ==
    IF Contains(full_content, "merit") /\ Contains(full_content, "need")
    THEN "Merit & Need Based"
    ELSE IF Contains(full_content, "merit") THEN "Merit Based"
    ELSE IF Contains(full_content, "need") THEN "Need Based"
    ELSE ""

\* "# Type (Merit/Need)"
TypeOf(full_content) ==
    LET text_lower == Lower(full_content)
    IN IF Contains(text_lower, "merit") /\ Contains(text_lower, "need")
       THEN "Merit & Need Based"
       ELSE IF Contains(text_lower, "merit") THEN "Merit Based"
       ELSE IF Contains(text_lower, "need") THEN "Need Based"
       ELSE ""

\* (last date|deadline|apply by), re.IGNORECASE, matching at position i
DeadlineLabels == {"last date", "deadline", "apply by"}
LabelAt(s, i) ==
    {l \in DeadlineLabels :
        /\ i + Len(l) - 1 <= Len(s)
        /\ Lower(SubSeq(s, i, i + Len(l) - 1)) = l}

\* \s*:?([^\n\r]+) on what follows the label: group 2 (rest is not empty; the
\* texts of the model hold no line break)
Group2(rest) ==
    LET t == LStrip(rest)
    IN IF t = "" THEN CharAt(rest, Len(rest))
       ELSE IF CharAt(t, 1) = ":" /\ Len(t) >= 2 THEN Tail2(t, 2)
       ELSE t

\* m = re.search(...); if m: deadline = m.group(2).strip()
DeadlineByRegex(full_content) ==
    LET hits == {i \in 1..Len(full_content) :
                    \E l \in LabelAt(full_content, i) : i + Len(l) <= Len(full_content)}
    IN IF hits = {} THEN ""
       ELSE LET i == CHOOSE h \in hits : \A g \in hits : h <= g
                l == CHOOSE x \in LabelAt(full_content, i) : TRUE
            IN Strip(Group2(Tail2(full_content, i + Len(l))))

\* "# Deadline"
DeadlineOf(doc) ==
    LET byRegex == DeadlineByRegex(FullContent(doc))
    IN IF byRegex # "" THEN byRegex
       ELSE guess_field_by_heading(doc, <<"deadline", "last date", "apply by", "closing date">>)

\* the fields extract_fields computes from a fetched, parsed page (the fields
\* no property of the model reads are left out: title, area, application_link,
\* summary, scraped_at)
FieldsOf(doc) ==
    [ offered_by |-> guess_field_by_heading(doc,
                        <<"offered by", "organization", "provider", "sponsored">>),
      level |-> LevelOf(FullContent(doc)),
      type |-> TypeOf(FullContent(doc)),
      amount |-> guess_field_by_heading(doc, <<"amount", "coverage", "stipend", "funding">>),
      eligibility |-> guess_field_by_heading(doc,
                        <<"eligib", "criteria", "requirements", "who can apply">>),
      deadline |-> DeadlineOf(doc),
      full_content |-> FullContent(doc) ]

(***************************************************************************)
(* extract_date.  pd.to_datetime and dateutil's parser.parse are the       *)
(* libraries' own: the model takes their outcome on the text as given.     *)
(* With errors="coerce" to_datetime does not raise on a string it cannot   *)
(* parse, it returns NaT, and NaT.date() is NaT.                           *)
(***************************************************************************)
NaT == "NaT"
Raised == "<raised>"
NotCalled == "<not called>"

DigitsAt(s, i, n) == \A k \in i..(i + n - 1) : k <= Len(s) /\ IsDigit(CharAt(s, k))
SepAt(s, i) == i <= Len(s) /\ CharAt(s, i) \in {"-", "/"}

\* re.search(r"(\d{1,2}[-/]\d{1,2}[-/]\d{2,4}|\d{4}[-/]\d{1,2}[-/]\d{1,2})", text)
HasNumericDate(text) ==
    \E i \in 1..Len(text) :
        \/ \E a \in 1..2, b \in 1..2 :
             /\ DigitsAt(text, i, a) /\ SepAt(text, i + a)
             /\ DigitsAt(text, i + a + 1, b) /\ SepAt(text, i + a + 1 + b)
             /\ DigitsAt(text, i + a + b + 2, 2)
        \/ \E b \in 1..2 :
             /\ DigitsAt(text, i, 4) /\ SepAt(text, i + 4)
             /\ DigitsAt(text, i + 5, b) /\ SepAt(text, i + 5 + b)
             /\ DigitsAt(text, i + 6 + b, 1)

\* pd.to_datetime(match.group(0), errors="coerce", dayfirst=True).date() on the
\* numeric date of the text: 15-02-2024 is 15 February 2024; the other numeric
\* dates of the model (31-02-2024, 99/99/99) are no calendar date, which
\* errors="coerce" turns into NaT; without a match the call is not made
PdOutcomes(text) ==
    IF ~HasNumericDate(text) THEN {NotCalled}
    ELSE IF Contains(text, "15-02-2024") THEN {"2024-02-15"}
    ELSE {NaT}

\* parser.parse(text, fuzzy=True, dayfirst=False, ignoretz=True).date(): a date,
\* or an exception; which one is dateutil's answer, left open
ParseOutcomes(text) == {"2025-03-05", Raised}

\* what a call of extract_date did: the value returned, and whether it got as
\* far as calling parser.parse
Returned(value, parsed) == [value |-> value, parserCalled |-> parsed]

\* extract_date(text), pd and parse being what the two library calls do on it
extract_date(text, pd, parse) ==
    IF Strip(text) = "" THEN Returned(NoneVal, FALSE)
    ELSE IF \E pre \in {"n.a", "na", "n/a"} : StartsWith(Lower(Strip(text)), pre)
         THEN Returned(NoneVal, FALSE)
    ELSE IF HasNumericDate(text) /\ pd # Raised THEN Returned(pd, FALSE)
    ELSE IF parse # Raised THEN Returned(parse, TRUE)
    ELSE Returned(NoneVal, TRUE)


(***************************************************************************)
(* main: the loop over the links, then the output files.                   *)
(***************************************************************************)
\* the parsed detail pages the site may serve
DetailDocs ==
    { <<Node("h1", "BSc Merit Award"),
        Node("#text", ""),
        Node("p", "Bachelor of Science students are eligible"),
        Node("p", "Deadline: N/A")>>,
      <<Node("h1", "PhD Fund"),
        Node("h2", "Closing Date"),
        Node("#text", ""),
        Node("p", "March 5, 2025"),
        Node("h2", "Eligibility"),
        Node("p", "Doctoral candidates")>>,
      <<Node("p", "Need based aid for undergraduate and MS students"),
        Node("p", "Apply by 15-02-2024")>> }

DetailResponses ==
    {[kind |-> "none", doc |-> <<>>], [kind |-> "empty", doc |-> <<>>]}
    \cup {[kind |-> "html", doc |-> d] : d \in DetailDocs}

\* FieldsOf on each page of the site, evaluated once
PageFields == [d \in DetailDocs |-> FieldsOf(d)]

\* the dict extract_fields returns
RecordOf(url, doc) ==
    [k \in {"url"} \cup DOMAIN PageFields[doc] |->
        IF k = "url" THEN url ELSE PageFields[doc][k]]

\* extract_fields(url), r being what fetch(url) returns: None or the record
extract_fields(url, r) == IF NotHtml(r) THEN <<>> ELSE <<RecordOf(url, r.doc)>>

\* extract_fields returns None: nothing is appended
ScrapeSkipped ==
    /\ pc = "scrape" /\ idx < Len(linkList)
    /\ \E r \in DetailResponses :
         /\ NotHtml(r)
         /\ results' = results \o extract_fields(linkList[idx + 1], r)
         /\ outcomes' = Append(outcomes, r.kind)
    /\ trace' = trace \o <<FetchEvent("extract", linkList[idx + 1]), SleepEvent>>
    /\ idx' = idx + 1
    /\ UNCHANGED <<pc, page, links, linkList, files, warned, discoveryOrder, lastListing, pureVars>>

\* data = extract_fields(link); if data: results.append(data)
ScrapeRecord ==
    /\ pc = "scrape" /\ idx < Len(linkList)
    /\ \E r \in DetailResponses :
         /\ ~NotHtml(r)
         /\ results' = results \o extract_fields(linkList[idx + 1], r)
         /\ outcomes' = Append(outcomes, r.kind)
    /\ trace' = trace \o <<FetchEvent("extract", linkList[idx + 1]), SleepEvent>>
    /\ idx' = idx + 1
    /\ UNCHANGED <<pc, page, links, linkList, files, warned, discoveryOrder, lastListing, pureVars>>

\* the columns of the all-records CSV present in the model's records
CsvRow(r) == [k \in {"url", "offered_by", "level", "type", "amount", "eligibility",
                     "deadline"} |-> r[k]]

\* the deadline texts of the site's pages, and what extract_date can return on
\* each, over the outcomes of the two library calls (evaluated once)
DeadlineTexts == {PageFields[d].deadline : d \in DetailDocs}
DateResults ==
    [t \in DeadlineTexts |->
        {extract_date(t, pd, parse).value :
            pd \in PdOutcomes(t), parse \in ParseOutcomes(t)}]

\* extract_date as a function of the text, for one behaviour of the libraries
DateFunctions(texts) ==
    {f \in [texts -> UNION {DateResults[t] : t \in DeadlineTexts}] :
        \A t \in texts : f[t] \in DateResults[t]}

\* df["clean_deadline"] = df["deadline"].apply(extract_date)
WithCleanDeadline(r, clean) ==
    [k \in (DOMAIN r) \cup {"clean_deadline"} |->
        IF k = "clean_deadline" THEN clean[r.deadline] ELSE r[k]]

\* str.contains("Bachelor", case=False) on each level the pages give (evaluated once)
LevelHasBachelor ==
    [l \in {PageFields[d].level : d \in DetailDocs} |->
        Contains(Lower(l), Lower("Bachelor"))]

\* a filter that keeps only the rows whose level is "Bachelor" itself
IsBachelorRowExact(row) == row.level = "Bachelor"

\* df["level"].str.contains("Bachelor", case=False, na=False), for one row
IsBachelorRow(row) == LevelHasBachelor[row.level]

\* bachelors_df = df[...]
SelectRows(rows) == SelectSeq(rows, IsBachelorRow)

\* "if results:" taken as always true
IfResultsAlways(rs) == TRUE

\* if results:
IfResults(rs) == rs # <<>>

\* if results: the three files
SaveOutputs ==
    /\ pc = "scrape" /\ idx = Len(linkList)
    /\ IfResults(results)
    /\ \E clean \in DateFunctions({results[i].deadline : i \in DOMAIN results}) :
         LET df == [i \in DOMAIN results |-> WithCleanDeadline(results[i], clean)]
         IN files' = [ json |-> Written(results),
                       csv |-> Written([i \in DOMAIN results |-> CsvRow(results[i])]),
                       bachelors |-> Written(SelectRows(df)) ]
    /\ pc' = "done"
    /\ UNCHANGED <<page, links, linkList, idx, results, warned, trace, discoveryOrder,
                   outcomes, lastListing, pureVars>>

\* else: print("[WARN] No scholarships scraped!")
WarnNoResults ==
    /\ pc = "scrape" /\ idx = Len(linkList)
    /\ ~IfResults(results)
    /\ warned' = TRUE
    /\ pc' = "done"
    /\ UNCHANGED <<page, links, linkList, idx, results, files, trace, discoveryOrder,
                   outcomes, lastListing, pureVars>>

MainInit ==
    /\ pc = "discover" /\ page = 1 /\ links = {}
    /\ linkList = <<>> /\ idx = 0 /\ results = <<>>
    /\ files = [json |-> NotWritten, csv |-> NotWritten, bachelors |-> NotWritten]
    /\ warned = FALSE
    /\ trace = <<>> /\ discoveryOrder = <<>> /\ outcomes = <<>> /\ lastListing = "start"
HeadingIdle == hDoc = <<>> /\ hKeys = <<>> /\ hResult = "" /\ hDone = FALSE
FieldsIdle == fContent = "" /\ fLevel = "" /\ fType = "" /\ fDone = FALSE
DateIdle ==
    /\ dText = "" /\ dPd = NotCalled /\ dParse = Raised
    /\ dResult = Returned("", FALSE) /\ dDone = FALSE

Init == MainInit /\ HeadingIdle /\ FieldsIdle /\ DateIdle

Next ==
    \/ DiscoverFetchFailed
    \/ DiscoverNoNewLinks
    \/ DiscoverNewLinks
    \/ DiscoverMaxPages
    \/ ScrapeSkipped
    \/ ScrapeRecord
    \/ SaveOutputs
    \/ WarnNoResults


Spec == Init /\ [][Next]_vars

\* the process is one thread that keeps running until main returns
LiveSpec == Spec /\ WF_vars(Next)


(***************************************************************************)
(* guess_field_by_heading on its own: every document of at most MaxNodes   *)
(* nodes, every keyword list of at most MaxKeys keywords.                   *)
(***************************************************************************)
MaxNodes == 3
MaxKeys == 2

HNodes == { Node("h2", "Deadline"),
            Node("h3", "Eligibility Criteria"),
            Node("p", "15 Feb"),
            Node("p", ""),
            Node("#text", "open to all") }
HKeywords == {"deadline", "eligib"}

HeadingInit ==
    /\ MainInit /\ FieldsIdle /\ DateIdle
    /\ hDoc \in SeqsUpTo(HNodes, MaxNodes)
    /\ hKeys \in SeqsUpTo(HKeywords, MaxKeys)
    /\ hResult = "" /\ hDone = FALSE

HeadingCall ==
    /\ ~hDone
    /\ hResult' = guess_field_by_heading(hDoc, hKeys)
    /\ hDone' = TRUE
    /\ UNCHANGED <<hDoc, hKeys, mainVars, fieldVars, dateVars>>

SpecHeading == HeadingInit /\ [][HeadingCall]_vars

(***************************************************************************)
(* The level and type tagging of extract_fields on its own: every full     *)
(* content of at most MaxTokens of the words below.                        *)
(***************************************************************************)
MaxTokens == 2

FTokens == { "Merit", "needy", "kneed", "MERIT-based", "Bachelors", "MS", "programs",
             "inter", "international", "PhD", "matric" }
FContents == {Join(ts, " ") : ts \in SeqsUpTo(FTokens, MaxTokens)}

FieldsInit ==
    /\ MainInit /\ HeadingIdle /\ DateIdle
    /\ fContent \in FContents
    /\ fLevel = "" /\ fType = "" /\ fDone = FALSE

FieldsCall ==
    /\ ~fDone
    /\ fLevel' = LevelOf(fContent)
    /\ fType' = TypeOf(fContent)
    /\ fDone' = TRUE
    /\ UNCHANGED <<fContent, mainVars, headingVars, dateVars>>

SpecFields == FieldsInit /\ [][FieldsCall]_vars

(***************************************************************************)
(* extract_date on its own: the deadline texts below, with every outcome   *)
(* of the two library calls.  (main passes extract_date the str values of  *)
(* the deadline column, so isinstance(text, str) holds.)                   *)
(***************************************************************************)
DatePrefixes == {"", "  ", "N/A ", "Nationwide ", "Extended to "}
DateNumerics == {"", "15-02-2024", "31-02-2024", "99/99/99"}
DateSuffixes == {"", " or March 5, 2025", " until filled"}
DateTexts == {p \o n \o x : p \in DatePrefixes, n \in DateNumerics, x \in DateSuffixes}

DateInit ==
    /\ MainInit /\ HeadingIdle /\ FieldsIdle
    /\ dText \in DateTexts
    /\ dPd \in PdOutcomes(dText) /\ dParse \in ParseOutcomes(dText)
    /\ dResult = Returned("", FALSE) /\ dDone = FALSE

DateCall ==
    /\ ~dDone
    /\ dResult' = extract_date(dText, dPd, dParse)
    /\ dDone' = TRUE
    /\ UNCHANGED <<dText, dPd, dParse, mainVars, headingVars, fieldVars>>

SpecDate == DateInit /\ [][DateCall]_vars


(***************************************************************************)
(* Properties.                                                             *)
(***************************************************************************)
IsPrefix(a, b) == Len(a) <= Len(b) /\ a = SubSeq(b, 1, Len(a))
NoDuplicates(q) == \A i, j \in DOMAIN q : q[i] = q[j] => i = j
UrlsOf(q) == [i \in DOMAIN q |-> q[i].url]

IsListingFetch(e) == e.op = "fetch" /\ e.by = "discover"
IsDetailFetch(e) == e.op = "fetch" /\ e.by = "extract"
ListingFetches == SelectSeq(trace, IsListingFetch)
DetailUrls == UrlsOf(SelectSeq(trace, IsDetailFetch))

ListingBeforeDetail ==
    \A i, j \in DOMAIN trace :
        (IsDetailFetch(trace[i]) /\ IsListingFetch(trace[j])) => j < i

\* C1 as stated: every listing-page fetch precedes the first detail-page fetch, and
\* the detail pages are fetched in the order in which their links were discovered.
C1_DiscoveryOrder ==
    /\ ListingBeforeDetail
    /\ IsPrefix(DetailUrls, discoveryOrder)

\* C1 amended: every listing-page fetch precedes the first detail-page fetch, and
\* the detail pages are fetched one at a time in ascending order of their
\* addresses (the order of sorted(links)), each discovered address once.
C1_SortedOrder ==
    /\ ListingBeforeDetail
    /\ IsPrefix(DetailUrls, Sorted(Range(discoveryOrder)))
    /\ Len(DetailUrls) = (IF pc = "discover" THEN 0 ELSE idx)
    /\ pc = "done" => DetailUrls = Sorted(Range(discoveryOrder))

C1_Witness ==
    /\ pc = "done" /\ Len(DetailUrls) >= 2
    /\ DetailUrls # discoveryOrder
    /\ Len(ListingFetches) >= 2

\* the links processed so far whose fetch did not fail (fetch returned r.text)
RECURSIVE FetchedOk(_, _)
FetchedOk(ls, outs) ==
    IF Len(outs) = 0 THEN <<>>
    ELSE (IF Head(outs) # "none" THEN <<Head(ls)>> ELSE <<>>)
         \o FetchedOk(Tail(ls), Tail(outs))

\* C2 as stated: whatever the fetch outcomes, results holds exactly one record for
\* each link whose fetch succeeded, in link order, and nothing for a link whose
\* fetch failed; the loop goes on to the next link after a failure.
C2_OneRecordPerFetchedLink ==
    /\ pc # "discover" => /\ Len(outcomes) = idx
                          /\ UrlsOf(results) = FetchedOk(linkList, outcomes)
    /\ pc = "done" => idx = Len(linkList)

AnyFileWritten == \E f \in DOMAIN files : files[f].written
AllFilesWritten == \A f \in DOMAIN files : files[f].written

C3_State ==
    /\ DOMAIN files = {"json", "csv", "bachelors"}
    /\ pc # "done" => ~AnyFileWritten /\ ~warned
    /\ pc = "done" =>
         /\ AllFilesWritten <=> results # <<>>
         /\ AnyFileWritten <=> AllFilesWritten
         /\ warned <=> results = <<>>

\* C3: when main ends, the three output files have been written if and only if at
\* least one record was collected; with zero records no file is written and only
\* the warning is emitted; the run terminates in both cases.
C3_OutputsIffRecords == [](C3_State) /\ <>(pc = "done")

C3_Witness ==
    /\ pc = "done" /\ results = <<>> /\ Len(linkList) >= 1
    /\ warned /\ ~AnyFileWritten

RECURSIVE SelectBachelor(_)
SelectBachelor(rs) ==
    IF Len(rs) = 0 THEN <<>>
    ELSE (IF Contains(Lower(Head(rs).level), "bachelor") THEN <<Head(rs)>> ELSE <<>>)
         \o SelectBachelor(Tail(rs))

\* C4: the bachelor's CSV holds exactly the collected records whose level contains
\* "Bachelor" (case-insensitive), one row each in record order, each row with the
\* clean_deadline extract_date gives for that record's own deadline; the JSON file
\* and the all-records CSV hold every collected record.
C4_BachelorsCsv ==
    (pc = "done" /\ files.bachelors.written) =>
        LET rows == files.bachelors.rows
            kept == SelectBachelor(results)
        IN /\ Len(rows) = Len(kept)
           /\ \A i \in DOMAIN rows :
                /\ \A k \in DOMAIN kept[i] : rows[i][k] = kept[i][k]
                /\ \E pd \in PdOutcomes(kept[i].deadline),
                      parse \in ParseOutcomes(kept[i].deadline) :
                     rows[i].clean_deadline = extract_date(kept[i].deadline, pd, parse).value
                /\ \A j \in DOMAIN rows :
                     rows[i].deadline = rows[j].deadline
                        => rows[i].clean_deadline = rows[j].clean_deadline
           /\ files.json.rows = results
           /\ Len(files.csv.rows) = Len(results)
           /\ \A i \in DOMAIN results :
                \A k \in DOMAIN files.csv.rows[i] : files.csv.rows[i][k] = results[i][k]

C4_Witness ==
    /\ pc = "done" /\ files.bachelors.written
    /\ Len(files.bachelors.rows) >= 1
    /\ Len(files.bachelors.rows) < Len(results)
    /\ \E i \in DOMAIN files.bachelors.rows :
         /\ files.bachelors.rows[i].level # "Bachelor"
         /\ files.bachelors.rows[i].clean_deadline # NoneVal

\* C6: in every reachable state every record of results has a non-empty url, and
\* no two records of results have the same url.
C6_UrlIsKey ==
    /\ \A i \in DOMAIN results : results[i].url # ""
    /\ NoDuplicates(UrlsOf(results))

C6_Witness ==
    /\ Len(results) >= 2
    /\ \E i \in DOMAIN results : results[i].url = BASE
    /\ Len(discoveryOrder) >= 3

\* C7 as stated: between any two consecutive calls of fetch, in discovery or in
\* main, time.sleep(DELAY) is executed: no two fetches back to back.
C7_DelayBetweenFetches ==
    \A i \in DOMAIN trace :
        (trace[i].op = "fetch" /\ i + 1 \in DOMAIN trace) => trace[i + 1].op = "sleep"

C8_Pages ==
    /\ \A k \in DOMAIN ListingFetches : ListingFetches[k].url = ListingUrl(k)
    /\ Len(ListingFetches) <= MaxPages
    /\ pc = "discover" => /\ lastListing \in {"start", "new"}
                          /\ Len(ListingFetches) = page - 1
    /\ pc # "discover" => /\ NoDuplicates(linkList)
                          /\ Range(linkList) = Range(discoveryOrder)
                          /\ Range(linkList) = links

\* C8 as stated: discovery fetches pages 1, 2, 3, ... in increasing order, goes on
\* until a page yields zero new addresses or max_pages pages were fetched, never
\* fetches more than max_pages pages, and returns the distinct addresses collected.
C8_StopsOnlyOnNoNewOrMax ==
    /\ C8_Pages
    /\ pc # "discover" =>
         \/ lastListing = "nonew"
         \/ lastListing = "new" /\ Len(ListingFetches) = MaxPages

C8_State ==
    /\ C8_Pages
    /\ pc # "discover" =>
         \/ lastListing \in {"nonew", "none", "empty"}
         \/ lastListing = "new" /\ Len(ListingFetches) = MaxPages

\* C8 amended: discovery always terminates; it fetches pages 1, 2, 3, ... in
\* increasing order, goes on until a listing fetch fails or returns an empty body,
\* a page yields zero new addresses, or max_pages pages were fetched; it never
\* fetches more than max_pages pages and returns the distinct addresses collected.
C8_Terminates == [](C8_State) /\ <>(pc # "discover")

C8_Witness ==
    /\ pc = "scrape" /\ idx = 0
    /\ lastListing = "none"
    /\ Len(ListingFetches) = 2 /\ Len(linkList) >= 1


\* the headings of hDoc whose lowercase text contains one of the keywords
HMatches ==
    {i \in DOMAIN hDoc :
        /\ IsHeadingTag(hDoc[i].tag)
        /\ \E k \in Range(hKeys) : Contains(Lower(hDoc[i].text), k)}
HFirst == CHOOSE i \in HMatches : \A j \in HMatches : i <= j
HNextHeading ==
    LET later == {j \in DOMAIN hDoc : j > HFirst /\ IsHeadingTag(hDoc[j].tag)}
    IN IF later = {} THEN Len(hDoc) + 1 ELSE CHOOSE j \in later : \A k \in later : j <= k
HSiblingTexts == [j \in 1..(HNextHeading - HFirst - 1) |-> hDoc[HFirst + j].text]
HKeyOrders == {[i \in DOMAIN hKeys |-> hKeys[p[i]]] : p \in Permutations(DOMAIN hKeys)}

\* C9 as stated: the result is decided by the first heading in document order whose
\* lowercase text contains any keyword, whatever the order of the keywords; it is
\* the texts of the siblings after that heading, up to the next heading, joined
\* with single spaces; it is "" when no heading matches.
C9_JoinedSiblings ==
    hDone =>
        /\ \A ks \in HKeyOrders : guess_field_by_heading(hDoc, ks) = hResult
        /\ hResult = (IF HMatches = {} THEN "" ELSE Join(HSiblingTexts, " "))

\* C9 amended: as stated, the joined text being stripped of leading and trailing
\* whitespace (a sibling with empty text still takes its place in the join).
C9_JoinedSiblingsStripped ==
    hDone =>
        /\ \A ks \in HKeyOrders : guess_field_by_heading(hDoc, ks) = hResult
        /\ hResult = (IF HMatches = {} THEN "" ELSE Strip(Join(HSiblingTexts, " ")))

C9_Witness ==
    /\ hDone /\ Cardinality(HMatches) >= 2 /\ hResult # ""
    /\ Len(hKeys) = 2
    /\ ~Contains(Lower(hDoc[HFirst].text), hKeys[1])

\* C10: the type of the record is one of "", "Merit Based", "Need Based",
\* "Merit & Need Based", decided only by whether the lowercase full content
\* contains "merit" and whether it contains "need".
C10_Type ==
    fDone =>
        LET merit == Contains(Lower(fContent), "merit")
            need == Contains(Lower(fContent), "need")
        IN /\ fType \in {"", "Merit Based", "Need Based", "Merit & Need Based"}
           /\ fType = "Merit & Need Based" <=> (merit /\ need)
           /\ fType = "Merit Based" <=> (merit /\ ~need)
           /\ fType = "Need Based" <=> (~merit /\ need)
           /\ fType = "" <=> (~merit /\ ~need)

C10_Witness ==
    /\ fDone /\ fType = "Merit & Need Based"
    /\ Contains(fContent, "M") /\ ~Contains(fContent, "merit")

\* rule 1 of extract_date: blank text, or text that starts with n.a, na or n/a
DateRule1(text) ==
    \/ Strip(text) = ""
    \/ \E pre \in {"n.a", "na", "n/a"} : StartsWith(Lower(Strip(text)), pre)

\* C5 as stated: no exception leaves extract_date, and when the text holds a
\* numeric date pattern whose parse fails, the function falls through to the
\* natural-language parse of the whole text and returns that parse's date, the
\* unparseable result only when that parse fails too.
C5_FallsThrough ==
    dDone =>
        /\ dResult.value # Raised
        /\ (~DateRule1(dText) /\ HasNumericDate(dText) /\ dPd = NaT) =>
              /\ dResult.parserCalled
              /\ dParse # Raised => dResult.value = dParse
              /\ dResult.value \in {NoneVal, NaT} => dParse = Raised

=============================================================================
